---- MODULE Spec2Model ----
(***************************************************************************)
(* Model of src/src/worker.js: the Worker's fetch router, the two POST     *)
(* handlers (handleWeatherRequest, handleArtGeneration) and the three      *)
(* stages they chain (fetchWeatherData, generateArtPrompt,                 *)
(* generateArtwork with getModelByStyle / getModelParameters).             *)
(*                                                                         *)
(* The file holds two copies of the Worker; the later one (lines 603 to    *)
(* 1307) is the one modelled: in a script the later function declarations  *)
(* replace the earlier ones.                                               *)
(*                                                                         *)
(* JavaScript strings are TLA+ strings.  Every other JavaScript value is a *)
(* record with a tag "t".  Numbers with a fractional part (coordinates,    *)
(* temperatures, wind speed, guidance) are held in tenths.                 *)
(***************************************************************************)
EXTENDS Integers, Sequences, FiniteSets, TLC

(***************************************************************************)
(* Bounds of the model.                                                    *)
(***************************************************************************)
\* longest interval list the forecast provider returns
MaxList == 16
\* longest binary payload the image backend returns
MaxBytes == 4

(***************************************************************************)
(* JavaScript values.                                                      *)
(***************************************************************************)
Undef == [t |-> "undefined"]
Null == [t |-> "null"]
Str(s) == [t |-> "string", s |-> s]
Uint8Array(b) == [t |-> "Uint8Array", b |-> b]
ArrayBuffer(b) == [t |-> "ArrayBuffer", b |-> b]
Array(b) == [t |-> "Array", b |-> b]
Function(n) == [t |-> "function", name |-> n]
Object(n) == [t |-> "object", name |-> n]

\* ToBoolean: undefined, null and the empty string are falsy; objects,
\* functions, typed arrays and buffers (also empty ones) are truthy.
Truthy(v) ==
  CASE v.t = "undefined" -> FALSE
    [] v.t = "null" -> FALSE
    [] v.t = "string" -> v.s # ""
    [] OTHER -> TRUE

Digits == "0123456789"

\* value of a one-character string as a decimal digit, -1 when it is none
DigitOf(c) ==
  IF \E d \in 1..10 : SubSeq(Digits, d, d) = c
  THEN (CHOOSE d \in 1..10 : SubSeq(Digits, d, d) = c) - 1
  ELSE -1

RECURSIVE DecimalValue(_, _)
\* value of a string of decimal digits, read left to right from acc
DecimalValue(s, acc) ==
  IF Len(s) = 0 THEN acc
  ELSE DecimalValue(SubSeq(s, 2, Len(s)), acc * 10 + DigitOf(SubSeq(s, 1, 1)))

\* ToIndex(ToNumber(s)) for a string: a string of decimal digits is its
\* value, the empty string is 0, any other text is NaN and so 0.
StringToIndex(s) ==
  IF Len(s) > 0 /\ \A i \in 1..Len(s) : DigitOf(SubSeq(s, i, i)) >= 0
  THEN DecimalValue(s, 0)
  ELSE 0

\* new Uint8Array(v): the bytes of a typed array or buffer, the elements of
\* an array taken modulo 256, and for a string (or any other primitive) a
\* zero-filled array of ToIndex(v) bytes.
NewUint8Array(v) ==
  CASE v.t = "Uint8Array" -> v.b
    [] v.t = "ArrayBuffer" -> v.b
    [] v.t = "Array" -> [i \in 1..Len(v.b) |-> v.b[i] % 256]
    [] v.t = "string" -> [i \in 1..StringToIndex(v.s) |-> 0]
    [] OTHER -> << >>

B64 == "ABCDEFGHIJKLMNOPQRSTUVWXYZabcdefghijklmnopqrstuvwxyz0123456789+/"

B64Char(i) == SubSeq(B64, i + 1, i + 1)

RECURSIVE btoaNoPadding(_)
\* base64 that leaves out the padding of the last group
btoaNoPadding(b) ==
  IF Len(b) = 0 THEN ""
  ELSE IF Len(b) = 1 THEN
    B64Char(b[1] \div 4) \o B64Char((b[1] % 4) * 16)
  ELSE IF Len(b) = 2 THEN
    B64Char(b[1] \div 4) \o B64Char((b[1] % 4) * 16 + b[2] \div 16)
      \o B64Char((b[2] % 16) * 4)
  ELSE
    B64Char(b[1] \div 4) \o B64Char((b[1] % 4) * 16 + b[2] \div 16)
      \o B64Char((b[2] % 16) * 4 + b[3] \div 64) \o B64Char(b[3] % 64)
      \o btoaNoPadding(SubSeq(b, 4, Len(b)))

RECURSIVE btoa(_)
\* btoa(String.fromCharCode(...bytes)): RFC 4648 base64 of a byte sequence
btoa(b) ==
  IF Len(b) = 0 THEN ""
  ELSE IF Len(b) = 1 THEN
    B64Char(b[1] \div 4) \o B64Char((b[1] % 4) * 16) \o "=="
  ELSE IF Len(b) = 2 THEN
    B64Char(b[1] \div 4) \o B64Char((b[1] % 4) * 16 + b[2] \div 16)
      \o B64Char((b[2] % 16) * 4) \o "="
  ELSE
    B64Char(b[1] \div 4) \o B64Char((b[1] % 4) * 16 + b[2] \div 16)
      \o B64Char((b[2] % 16) * 4 + b[3] \div 64) \o B64Char(b[3] % 64)
      \o btoa(SubSeq(b, 4, Len(b)))

\* Math.round on a number held in tenths: halves round towards +infinity
MathRound(x10) == (x10 + 5) \div 10

\* String.prototype.includes
Includes(s, sub) ==
  \E i \in 0..(Len(s) - Len(sub)) : SubSeq(s, i + 1, i + Len(sub)) = sub

\* thrown errors and the two ways a call ends
Error(name, message) == [name |-> name, message |-> message]
Throw(e) == [threw |-> TRUE, error |-> e]
Return(v) == [threw |-> FALSE, value |-> v]

(***************************************************************************)
(* Image Renderer: getModelByStyle, getModelParameters, generateArtwork.   *)
(***************************************************************************)
\* the object literal of getModelByStyle: its four own properties
models ==
  ("stable-diffusion" :> "@cf/stabilityai/stable-diffusion-xl-base-1.0") @@
  ("flux" :> "@cf/black-forest-labs/flux-1-schnell") @@
  ("dreamshaper" :> "@cf/lykon/dreamshaper-8-lcm") @@
  ("realistic" :> "@cf/bytedance/stable-diffusion-xl-lightning")

\* what an object literal inherits from Object.prototype
ObjectPrototype ==
  ("constructor" :> Function("Object")) @@
  ("toString" :> Function("toString")) @@
  ("toLocaleString" :> Function("toLocaleString")) @@
  ("valueOf" :> Function("valueOf")) @@
  ("hasOwnProperty" :> Function("hasOwnProperty")) @@
  ("isPrototypeOf" :> Function("isPrototypeOf")) @@
  ("propertyIsEnumerable" :> Function("propertyIsEnumerable")) @@
  ("__proto__" :> Object("Object.prototype"))

\* ToPropertyKey of the style taken from the request body
PropertyKey(v) ==
  CASE v.t = "string" -> v.s
    [] OTHER -> v.t

\* models[key]: own property, else the prototype chain, else undefined
ModelsGet(key) ==
  IF key \in DOMAIN models THEN Str(models[key])
  ELSE IF key \in DOMAIN ObjectPrototype THEN ObjectPrototype[key]
  ELSE Undef

getModelByStyle(style) ==
  LET selected == ModelsGet(PropertyKey(style))
  IN IF Truthy(selected) THEN selected ELSE ModelsGet("stable-diffusion")

getModelParametersNoLightning(modelName, prompt) ==
  IF modelName.t # "string"
  THEN Throw(Error("TypeError", "modelName.includes is not a function"))
  ELSE IF Includes(modelName.s, "flux")
  THEN Return([prompt |-> prompt, num_steps |-> 4])
  ELSE IF Includes(modelName.s, "dreamshaper")
  THEN Return([prompt |-> prompt, num_steps |-> 8, guidance |-> 75])
  ELSE Return([prompt |-> prompt, num_steps |-> 20, guidance |-> 75,
               strength |-> 1])

getModelParameters(modelName, prompt) ==
  IF modelName.t # "string"
  THEN Throw(Error("TypeError", "modelName.includes is not a function"))
  ELSE IF Includes(modelName.s, "flux")
  THEN Return([prompt |-> prompt, num_steps |-> 4])
  ELSE IF Includes(modelName.s, "lightning")
  THEN Return([prompt |-> prompt, num_steps |-> 8])
  ELSE IF Includes(modelName.s, "dreamshaper")
  THEN Return([prompt |-> prompt, num_steps |-> 8, guidance |-> 75])
  ELSE Return([prompt |-> prompt, num_steps |-> 20, guidance |-> 75,
               strength |-> 1])

DataUrlPrefix == "data:image/png;base64,"

\* the catch block of generateArtwork
ImageGenerationFailed(e) ==
  Throw(Error("Error", "Image generation failed: " \o e.message))

\* generateArtwork up to the await of env.AI.run: the model and the
\* parameters of the call, or the wrapped error of getModelParameters
generateArtworkCall(prompt, style) ==
  LET modelName == getModelByStyle(style)
      aiParams == getModelParameters(modelName, prompt)
  IN IF aiParams.threw THEN ImageGenerationFailed(aiParams.error)
     ELSE Return([model |-> modelName.s, params |-> aiParams.value])

\* a backend response: an object with the fields the code reads.  A direct
\* binary response (t = "Uint8Array" or "ArrayBuffer") carries its bytes in
\* b; like any object it may have properties of its own.
AIResponse(t, b, image, result, data) ==
  [t |-> t, b |-> b, image |-> image, result |-> result, data |-> data]

\* response.result?.image
ResultImage(response) ==
  IF response.result.t = "object" THEN response.result.image ELSE Undef

\* Object.keys(response).join(', ') over the properties that are set
ResponseKeys(response) ==
  LET k1 == IF response.image.t # "undefined" THEN <<"image">> ELSE << >>
      k2 == IF response.result.t # "undefined" THEN <<"result">> ELSE << >>
      k3 == IF response.data.t # "undefined" THEN <<"data">> ELSE << >>
      keys == k1 \o k2 \o k3
  IN IF Len(keys) = 0 THEN ""
     ELSE IF Len(keys) = 1 THEN keys[1]
     ELSE IF Len(keys) = 2 THEN keys[1] \o ", " \o keys[2]
     ELSE keys[1] \o ", " \o keys[2] \o ", " \o keys[3]

\* the try block with response.data looked at before response.result
NormalizeResponseDataFirst(response) ==
  IF ~Truthy(response)
  THEN Throw(Error("Error", "No response from AI model"))
  ELSE IF ~Truthy(response.image) /\ response.t = "Uint8Array"
  THEN Return(DataUrlPrefix \o btoa(response.b))
  ELSE IF ~Truthy(response.image) /\ response.t = "ArrayBuffer"
  THEN Return(DataUrlPrefix \o btoa(NewUint8Array(response)))
  ELSE IF Truthy(response.image)
  THEN Return(DataUrlPrefix \o
         (IF response.image.t = "Uint8Array" THEN btoa(response.image.b)
          ELSE IF response.image.t = "string" THEN response.image.s
          ELSE btoa(NewUint8Array(response.image))))
  ELSE IF Truthy(response.data)
  THEN Return(DataUrlPrefix \o btoa(NewUint8Array(response.data)))
  ELSE IF Truthy(ResultImage(response))
  THEN Return(DataUrlPrefix \o
         (IF ResultImage(response).t = "string" THEN ResultImage(response).s
          ELSE btoa(NewUint8Array(ResultImage(response)))))
  ELSE Throw(Error("Error",
         "No image data in AI response. Response keys: "
           \o ResponseKeys(response)))

\* the try block of generateArtwork after env.AI.run resolved
NormalizeResponse(response) ==
  IF ~Truthy(response)
  THEN Throw(Error("Error", "No response from AI model"))
  ELSE IF ~Truthy(response.image) /\ response.t = "Uint8Array"
  THEN Return(DataUrlPrefix \o btoa(response.b))
  ELSE IF ~Truthy(response.image) /\ response.t = "ArrayBuffer"
  THEN Return(DataUrlPrefix \o btoa(NewUint8Array(response)))
  ELSE IF Truthy(response.image)
  THEN Return(DataUrlPrefix \o
         (IF response.image.t = "Uint8Array" THEN btoa(response.image.b)
          ELSE IF response.image.t = "string" THEN response.image.s
          ELSE btoa(NewUint8Array(response.image))))
  ELSE IF Truthy(ResultImage(response))
  THEN Return(DataUrlPrefix \o
         (IF ResultImage(response).t = "string" THEN ResultImage(response).s
          ELSE btoa(NewUint8Array(ResultImage(response)))))
  ELSE IF Truthy(response.data)
  THEN Return(DataUrlPrefix \o btoa(NewUint8Array(response.data)))
  ELSE Throw(Error("Error",
         "No image data in AI response. Response keys: "
           \o ResponseKeys(response)))

\* generateArtwork from the settlement of env.AI.run to its own return:
\* reply is Return(response) or Throw(error) of the backend
generateArtwork(reply) ==
  IF reply.threw THEN ImageGenerationFailed(reply.error)
  ELSE LET r == NormalizeResponse(reply.value)
       IN IF r.threw THEN ImageGenerationFailed(r.error) ELSE r

(***************************************************************************)
(* Location Resolver: fetchWeatherData.                                    *)
(***************************************************************************)
\* number of provider entries kept: weatherData.list.slice(0, 8)
SliceEnd == 8

\* Array.prototype.slice(0, n)
SliceInclusiveEnd(list, n) ==
  SubSeq(list, 1, IF Len(list) < n + 1 THEN Len(list) ELSE n + 1)

Slice(list, n) == SubSeq(list, 1, IF Len(list) < n THEN Len(list) ELSE n)

\* the callback of map in fetchWeatherData: one provider entry to one
\* forecast point; item.weather[0] of an empty list is undefined and
\* reading a property of it throws
ForecastPoint(item) ==
  [datetime |-> item.dt_txt,
   temperature |-> MathRound(item.main.temp),
   humidity |-> item.main.humidity,
   pressure |-> item.main.pressure,
   description |-> item.weather[1].description,
   main |-> item.weather[1].main,
   icon |-> item.weather[1].icon,
   windSpeed |-> item.wind.speed,
   windDirection |-> item.wind.deg,
   clouds |-> item.clouds.all]

\* processedData of fetchWeatherData from the first geocoding match and the
\* forecast reply
processedData(match, weatherData) ==
  IF weatherData.t # "object"
  THEN Throw(Error("TypeError",
         "Cannot read properties of " \o weatherData.t \o " (reading 'list')"))
  ELSE IF weatherData.list.t # "Array"
  THEN Throw(Error("TypeError",
         "Cannot read properties of undefined (reading 'slice')"))
  ELSE LET kept == Slice(weatherData.list.b, SliceEnd)
       IN IF \E i \in 1..Len(kept) : Len(kept[i].weather) = 0
          THEN Throw(Error("TypeError",
            "Cannot read properties of undefined (reading 'description')"))
          ELSE Return(
            [t |-> "object",
             location |-> match.name \o ", " \o match.country,
             coordinates |-> [lat |-> match.lat, lon |-> match.lon],
             forecast |-> Array([i \in 1..Len(kept) |-> ForecastPoint(kept[i])])])

\* !geoData.length: an empty list, and also a reply that is no list
NoMatchUndefinedOnly(geoData) == geoData.t # "Array"

NoMatch(geoData) ==
  CASE geoData.t = "Array" -> Len(geoData.b) = 0
    [] OTHER -> TRUE

\* geoData[0]
FirstMatch(geoData) ==
  IF geoData.t = "Array" /\ Len(geoData.b) > 0 THEN geoData.b[1] ELSE Undef

(***************************************************************************)
(* Prompt Synthesizer: generateArtPrompt.                                  *)
(***************************************************************************)
\* template literal substitution of a non-negative number held in tenths
TenthsToString(x) ==
  IF x % 10 = 0 THEN ToString(x \div 10)
  ELSE ToString(x \div 10) \o "." \o ToString(x % 10)

\* one line of weatherSummary (the degree sign before C is left out)
SummaryLine(f) ==
  f.datetime \o ": " \o f.description \o ", " \o ToString(f.temperature)
    \o "C, humidity " \o ToString(f.humidity) \o "%, wind "
    \o TenthsToString(f.windSpeed) \o "m/s"

RECURSIVE Join(_, _)
\* Array.prototype.join
Join(lines, sep) ==
  IF Len(lines) = 0 THEN ""
  ELSE IF Len(lines) = 1 THEN lines[1]
  ELSE lines[1] \o sep \o Join(Tail(lines), sep)

\* the text sent to the language model
PromptText(weatherData) ==
  "Transform this weather forecast into an artistic concept for image generation. Focus on the WEATHER PHENOMENA themselves, not decorative elements or settings.\n\nWeather Data for "
    \o weatherData.location \o ":\n"
    \o Join([i \in 1..Len(weatherData.forecast.b) |->
               SummaryLine(weatherData.forecast.b[i])], "\n")
    \o "\n\nCreate a detailed artistic prompt that captures the essence and patterns of these weather conditions. Think about:\n- Visual metaphors for temperature variations\n- Artistic representation of weather phenomena (rain, clouds, wind, etc.)\n- Color palettes that reflect the atmospheric conditions\n- Abstract or impressionistic interpretations of meteorological data\n- Dynamic elements that show weather changes over time\n\nRespond with a concise but vivid artistic prompt (under 200 words) that focuses purely on weather phenomena visualization, not landscapes or environments."

\* generateArtPrompt that reports every non-success status as 'Unknown error'
generateArtPromptNoMessage(ok, data) ==
  IF ~ok
  THEN Throw(Error("Error", "Gemini API error: Unknown error"))
  ELSE IF data.candidates.t # "Array"
  THEN Throw(Error("TypeError",
         "Cannot read properties of undefined (reading '0')"))
  ELSE IF Len(data.candidates.b) = 0
  THEN Throw(Error("TypeError",
         "Cannot read properties of undefined (reading 'content')"))
  ELSE Return(data.candidates.b[1])

\* generateArtPrompt from the settlement of response.json() to its return.
\* data.error?.message || 'Unknown error' and
\* data.candidates[0].content.parts[0].text
generateArtPrompt(ok, data) ==
  IF ~ok
  THEN Throw(Error("Error", "Gemini API error: " \o
         (IF data.error.t = "object" /\ Truthy(data.error.message)
          THEN data.error.message.s ELSE "Unknown error")))
  ELSE IF data.candidates.t # "Array"
  THEN Throw(Error("TypeError",
         "Cannot read properties of undefined (reading '0')"))
  ELSE IF Len(data.candidates.b) = 0
  THEN Throw(Error("TypeError",
         "Cannot read properties of undefined (reading 'content')"))
  ELSE Return(data.candidates.b[1])

(***************************************************************************)
(* The inputs: credentials, requests and the replies of the three          *)
(* external services.                                                      *)
(***************************************************************************)
\* the secrets the hosting environment binds
Envs ==
  {[OPENWEATHER_API_KEY |-> "owm-key-1", GEMINI_API_KEY |-> "gemini-key-1"],
   [OPENWEATHER_API_KEY |-> "owm-key-2", GEMINI_API_KEY |-> "gemini-key-2"]}

\* new Date().toISOString()
Clock == {"2025-01-01T00:00:00.000Z", "2025-01-01T00:00:01.000Z"}

\* request.json() of a body that is not JSON
Unparsable == [t |-> "unparsable"]

Temps == <<-15, 25, 134, 206>>

\* entry i of the provider's interval list; entry bad has no weather element
ProviderItem(i, k, bad) ==
  [dt_txt |-> "T+" \o ToString(3 * (i - 1)) \o "h",
   main |-> [temp |-> Temps[((i + k) % 4) + 1], humidity |-> 60 + i,
             pressure |-> 1000 + i],
   weather |-> IF i = bad THEN << >>
               ELSE <<[description |-> "light rain", main |-> "Rain",
                       icon |-> "10d"]>>,
   wind |-> [speed |-> 41 + i, deg |-> 10 * i],
   clouds |-> [all |-> 5 * i]]

ProviderList(n, k, bad) == [i \in 1..n |-> ProviderItem(i, k, bad)]

\* a report as the page sends it back to /api/generate-art
SampleReport(n) ==
  processedData([name |-> "Paris", country |-> "FR", lat |-> 489, lon |-> 23],
                [t |-> "object", list |-> Array(ProviderList(n, 0, 0))]).value

Styles ==
  {Undef, Str("stable-diffusion"), Str("flux"), Str("dreamshaper"),
   Str("realistic"), Str("watercolor"), Str(""), Str("constructor"),
   Str("toString"), Str("__proto__")}

WeatherBodies ==
  {Unparsable, Null}
    \cup {[t |-> "object", location |-> l] :
            l \in {Undef, Str(""), Str("Paris"), Str("Atlantis")}}

ArtBodies ==
  {Unparsable, Null}
    \cup {[t |-> "object", weatherData |-> w, artisticStyle |-> st] :
            w \in {Undef, Null,
                   [t |-> "object", location |-> "Paris, FR",
                    forecast |-> Undef]},
            st \in {Undef, Str("flux")}}
    \cup {[t |-> "object",
           weatherData |-> SampleReport(n),
           artisticStyle |-> st] : n \in {0, 2}, st \in Styles}

Requests ==
  {[method |-> m, pathname |-> "/", body |-> Undef] : m \in {"GET", "POST"}}
    \cup {[method |-> m, pathname |-> "/favicon.ico", body |-> Undef] :
            m \in {"GET", "POST"}}
    \cup {[method |-> "GET", pathname |-> pth, body |-> Undef] :
            pth \in {"/api/weather", "/api/generate-art"}}
    \cup {[method |-> "POST", pathname |-> "/api/weather", body |-> b] :
            b \in WeatherBodies}
    \cup {[method |-> "POST", pathname |-> "/api/generate-art", body |-> b] :
            b \in ArtBodies}

NetworkError == Error("TypeError", "fetch failed")
JsonError == Error("SyntaxError", "Unexpected token < in JSON at position 0")

Matches ==
  <<[name |-> "Paris", country |-> "FR", lat |-> 489, lon |-> 23],
    [name |-> "Paris", country |-> "US", lat |-> 337, lon |-> -955]>>

\* settlements of the geocoding call followed by geoResponse.json()
GeoReplies ==
  {Throw(NetworkError), Throw(JsonError), Return(Null),
   Return([t |-> "object", cod |-> 401, message |-> "Invalid API key"])}
    \cup {Return(Array(SubSeq(Matches, i, j))) : i \in 1..2, j \in 0..2}

\* settlements of the forecast call followed by weatherResponse.json()
ForecastReplies ==
  {Throw(NetworkError), Throw(JsonError), Return(Null),
   Return([t |-> "object", list |-> Undef])}
    \cup {Return([t |-> "object", list |-> Array(ProviderList(n, k, bad))]) :
            n \in 0..MaxList, k \in 0..1, bad \in 0..MaxList}

Texts == {Str("Storm-grey spirals over amber light"), Str("Mist"), Undef}

\* settlements of the language-model call followed by response.json():
\* the ok flag of the response and the parsed body
GeminiReplies ==
  {Throw(NetworkError), Throw(JsonError)}
    \cup {Return([ok |-> FALSE,
                  data |-> [error |-> e, candidates |-> Undef]]) :
            e \in {Undef,
                   [t |-> "object", message |-> Str("API key not valid")],
                   [t |-> "object", message |-> Str("Quota exceeded")],
                   [t |-> "object", message |-> Str("")],
                   [t |-> "object", message |-> Undef]}}
    \cup {Return([ok |-> TRUE, data |-> [error |-> Undef, candidates |-> c]]) :
            c \in {Undef, Array(<< >>)}
                    \cup {Array(<<x>>) : x \in Texts}
                    \cup {Array(<<x, y>>) : x \in Texts \ {Undef}, y \in Texts \ {Undef}}}

ByteVals == <<77, 97, 110, 255, 0>>

\* n bytes of the pattern, starting at offset k
Bytes(n, k) == [i \in 1..n |-> ByteVals[((i + k - 1) % 5) + 1]]

ByteSeqs == {Bytes(n, k) : n \in 0..MaxBytes, k \in {0, 3}}

\* what a field of the backend response may hold
Payloads ==
  {Undef, Null, Str(""), Str("TWFu"), Str("iVBORw0KGgo="), Str("3"),
   Array(<<333, 97>>)}
    \cup {Uint8Array(b) : b \in ByteSeqs}
    \cup {ArrayBuffer(b) : b \in ByteSeqs}

\* a few payloads for the responses that match several shapes at once
FewPayloads == {Undef, Str(""), Str("TWFu"), Uint8Array(<<77, 97>>)}

ResultOf(v) == [t |-> "object", image |-> v]

AIResponses ==
  {Undef, Null}
    \cup {AIResponse(t, b, i, Undef, d) :
            t \in {"Uint8Array", "ArrayBuffer"}, b \in ByteSeqs,
            i \in {Undef, Str("TWFu"), Uint8Array(<<255>>)},
            d \in {Undef, Str("TWFu")}}
    \cup {AIResponse("object", << >>, v, Undef, Undef) : v \in Payloads}
    \cup {AIResponse("object", << >>, Undef, ResultOf(v), Undef) :
            v \in Payloads}
    \cup {AIResponse("object", << >>, Undef, Undef, v) : v \in Payloads}
    \cup {AIResponse("object", << >>, i, r, d) :
            i \in FewPayloads,
            r \in {Undef} \cup {ResultOf(v) : v \in FewPayloads},
            d \in FewPayloads}

\* settlements of env.AI.run
AIReplies ==
  {Throw(Error("Error", "5007: No such model"))}
    \cup {Return(r) : r \in AIResponses}

(***************************************************************************)
(* The Worker as a state machine.  A request is served from fetch to its   *)
(* response; the handlers are cut at the awaits of the outbound calls,     *)
(* where the reply of the external service comes in.                       *)
(***************************************************************************)
VARIABLES
  env,       \* the bindings of the Worker
  request,   \* the request being served
  pc,        \* where the handler of the request stands
  calls,     \* the outbound calls issued for the request, in order
  local,     \* the settlements the handler has awaited and its locals
  response,  \* the response to the request
  other,     \* a second request in flight, its handler suspended at an await
  page       \* the page in the browser: its document and its script

vars == <<env, request, pc, calls, local, response, other, page>>

None == [t |-> "none"]

NoRequest == [method |-> "", pathname |-> "", body |-> Undef]

NoResponse == [status |-> 0]

NoLocal ==
  [geoReply |-> None, forecastReply |-> None, geminiReply |-> None,
   artPrompt |-> None, aiReply |-> None]

\* what belongs to one invocation of fetch(request, env, ctx): the bindings
\* and the request it was given, the position of its handler, the calls it
\* issued, its locals and its response
Invocation(e, r, p, c, l, resp) ==
  [env |-> e, request |-> r, pc |-> p, calls |-> c, local |-> l,
   response |-> resp]

Idle(e) == Invocation(e, NoRequest, "idle", << >>, NoLocal, NoResponse)

\* the invocation that is running
Running == Invocation(env, request, pc, calls, local, response)

\* new Response(JSON.stringify(body), {status, headers})
JsonResponse(status, body) ==
  [status |-> status, contentType |-> "application/json", body |-> body]

Stack(e) == e.name \o ": " \o e.message \o "\n    at <frames>"

\* the catch block of handleWeatherRequest
WeatherFailure(e) == JsonResponse(500, [error |-> e.message])

\* a catch block that answers the validation error with status 400
ArtFailureValidation400(e, now) ==
  JsonResponse(IF e.message = "Invalid weather data provided" THEN 400 ELSE 500,
               [error |-> e.message, stack |-> Stack(e), timestamp |-> now])

\* the catch block of handleArtGeneration
ArtFailure(e, now) ==
  JsonResponse(500, [error |-> e.message, stack |-> Stack(e),
                     timestamp |-> now])

\* the invocation c ended with this response
Respond(c, resp) == [c EXCEPT !.response = resp, !.pc = "done"]

\* the invocation c issued this call and awaits its reply at position p
Await(c, call, p) == [c EXCEPT !.calls = Append(@, call), !.pc = p]

\* the router: export default { fetch }
Route(e, r) ==
  IF r.pathname = "/"
  THEN Invocation(e, r, "done", << >>, NoLocal,
         [status |-> 200, contentType |-> "text/html",
          body |-> Str("<!DOCTYPE html>")])
  ELSE IF r.pathname = "/api/weather" /\ r.method = "POST"
  THEN Invocation(e, r, "handleWeatherRequest", << >>, NoLocal, NoResponse)
  ELSE IF r.pathname = "/api/generate-art" /\ r.method = "POST"
  THEN Invocation(e, r, "handleArtGeneration", << >>, NoLocal, NoResponse)
  ELSE Invocation(e, r, "done", << >>, NoLocal,
         [status |-> 404, contentType |-> "text/plain;charset=UTF-8",
          body |-> Str("Not Found")])

\* !location
LocationMissingUndefinedOnly(location) == location.t = "undefined"

LocationMissing(location) == ~Truthy(location)

HandleWeatherRequestJsonOutsideTry(c) ==
  LET body == c.request.body IN
  IF body = Unparsable
  THEN [c EXCEPT !.pc = "unhandled"]
  ELSE IF body = Null
  THEN Respond(c, WeatherFailure(Error("TypeError",
         "Cannot destructure property 'location' of '(intermediate value)' as it is null.")))
  ELSE IF LocationMissing(body.location)
  THEN Respond(c, JsonResponse(400, [error |-> "Location is required"]))
  ELSE Await(c, [to |-> "geocoding", q |-> body.location.s, limit |-> 1,
                 appid |-> c.env.OPENWEATHER_API_KEY], "geoResponse")

\* handleWeatherRequest up to the geocoding call of fetchWeatherData
HandleWeatherRequest(c) ==
  LET body == c.request.body IN
  IF body = Unparsable
  THEN Respond(c, WeatherFailure(JsonError))
  ELSE IF body = Null
  THEN Respond(c, WeatherFailure(Error("TypeError",
         "Cannot destructure property 'location' of '(intermediate value)' as it is null.")))
  ELSE IF LocationMissing(body.location)
  THEN Respond(c, JsonResponse(400, [error |-> "Location is required"]))
  ELSE Await(c, [to |-> "geocoding", q |-> body.location.s, limit |-> 1,
                 appid |-> c.env.OPENWEATHER_API_KEY], "geoResponse")

FetchWeatherDataGeoRetry(c, reply) ==
  LET d == [c EXCEPT !.local.geoReply = reply] IN
  IF reply.threw /\ Len(c.calls) < 2
  THEN Await(c, c.calls[1], "geoResponse")
  ELSE IF reply.threw
  THEN Respond(d, WeatherFailure(reply.error))
  ELSE IF reply.value = Null
  THEN Respond(d, WeatherFailure(Error("TypeError",
         "Cannot read properties of null (reading 'length')")))
  ELSE IF NoMatch(reply.value)
  THEN Respond(d, WeatherFailure(Error("Error", "Location not found")))
  ELSE IF FirstMatch(reply.value) = Undef
  THEN Respond(d, WeatherFailure(Error("TypeError",
         "Cannot destructure property 'lat' of 'geoData[0]' as it is undefined.")))
  ELSE Await(d, [to |-> "forecast", lat |-> FirstMatch(reply.value).lat,
                 lon |-> FirstMatch(reply.value).lon,
                 appid |-> c.env.OPENWEATHER_API_KEY, units |-> "metric"],
             "weatherResponse")

\* fetchWeatherData from the geocoding reply to the forecast call
FetchWeatherDataGeo(c, reply) ==
  LET d == [c EXCEPT !.local.geoReply = reply] IN
  IF reply.threw
  THEN Respond(d, WeatherFailure(reply.error))
  ELSE IF reply.value = Null
  THEN Respond(d, WeatherFailure(Error("TypeError",
         "Cannot read properties of null (reading 'length')")))
  ELSE IF NoMatch(reply.value)
  THEN Respond(d, WeatherFailure(Error("Error", "Location not found")))
  ELSE IF FirstMatch(reply.value) = Undef
  THEN \* const { lat, lon, name, country } = geoData[0]
       Respond(d, WeatherFailure(Error("TypeError",
         "Cannot destructure property 'lat' of 'geoData[0]' as it is undefined.")))
  ELSE Await(d, [to |-> "forecast", lat |-> FirstMatch(reply.value).lat,
                 lon |-> FirstMatch(reply.value).lon,
                 appid |-> c.env.OPENWEATHER_API_KEY, units |-> "metric"],
             "weatherResponse")

FetchWeatherDataForecastEchoUrl(c, reply) ==
  LET d == [c EXCEPT !.local.forecastReply = reply] IN
  IF reply.threw
  THEN Respond(d, WeatherFailure(Error(reply.error.name,
         reply.error.message \o " (forecast?appid="
           \o c.env.OPENWEATHER_API_KEY \o ")")))
  ELSE LET r == processedData(FirstMatch(c.local.geoReply.value), reply.value)
       IN IF r.threw THEN Respond(d, WeatherFailure(r.error))
          ELSE Respond(d, JsonResponse(200, r.value))

\* fetchWeatherData from the forecast reply to the response of
\* handleWeatherRequest
FetchWeatherDataForecast(c, reply) ==
  LET d == [c EXCEPT !.local.forecastReply = reply] IN
  IF reply.threw
  THEN Respond(d, WeatherFailure(reply.error))
  ELSE LET r == processedData(FirstMatch(c.local.geoReply.value), reply.value)
       IN IF r.threw THEN Respond(d, WeatherFailure(r.error))
          ELSE Respond(d, JsonResponse(200, r.value))

\* handleArtGeneration up to the language-model call of generateArtPrompt
HandleArtGeneration(c, now) ==
  LET body == c.request.body IN
  IF body = Unparsable
  THEN Respond(c, ArtFailure(JsonError, now))
  ELSE IF body = Null
  THEN Respond(c, ArtFailure(Error("TypeError",
         "Cannot destructure property 'weatherData' of '(intermediate value)' as it is null."),
         now))
  ELSE IF body.weatherData.t \in {"undefined", "null"}
  THEN \* console.log(..., weatherData.location) comes before the check
       Respond(c, ArtFailure(Error("TypeError",
         "Cannot read properties of " \o body.weatherData.t
           \o " (reading 'location')"), now))
  ELSE IF ~Truthy(body.weatherData.forecast)
  THEN Respond(c, ArtFailure(Error("Error", "Invalid weather data provided"),
                             now))
  ELSE Await(c, [to |-> "gemini", key |-> c.env.GEMINI_API_KEY,
                 text |-> PromptText(body.weatherData),
                 maxOutputTokens |-> 300, temperature |-> 7],
             "geminiResponse")

GenerateArtPromptReplyTruncating(c, reply, now) ==
  LET r == IF reply.threw THEN reply
           ELSE generateArtPrompt(reply.value.ok, reply.value.data)
  IN IF r.threw
     THEN Respond([c EXCEPT !.local.geminiReply = reply],
                  ArtFailure(r.error, now))
     ELSE LET d == [c EXCEPT !.local.geminiReply = reply,
                             !.local.artPrompt = r.value]
          IN IF r.value.t # "string"
             THEN Respond(d, ArtFailure(Error("TypeError",
                    "Cannot read properties of undefined (reading 'length')"),
                    now))
             ELSE LET call == generateArtworkCall(
                                SubSeq(r.value.s, 1,
                                  IF Len(r.value.s) < 10 THEN Len(r.value.s)
                                  ELSE 10),
                                c.request.body.artisticStyle)
                  IN IF call.threw
                     THEN Respond(d, ArtFailure(call.error, now))
                     ELSE Await(d, [to |-> "AI", model |-> call.value.model,
                                    params |-> call.value.params],
                                "aiResponse")

\* generateArtPrompt from the language model's reply, then
\* handleArtGeneration and generateArtwork up to the call of env.AI.run
GenerateArtPromptReply(c, reply, now) ==
  LET r == IF reply.threw THEN reply
           ELSE generateArtPrompt(reply.value.ok, reply.value.data)
  IN IF r.threw
     THEN Respond([c EXCEPT !.local.geminiReply = reply],
                  ArtFailure(r.error, now))
     ELSE LET d == [c EXCEPT !.local.geminiReply = reply,
                             !.local.artPrompt = r.value]
          IN IF r.value.t # "string"
             THEN \* artPrompt.length of undefined
                  Respond(d, ArtFailure(Error("TypeError",
                    "Cannot read properties of undefined (reading 'length')"),
                    now))
             ELSE LET call == generateArtworkCall(r.value.s,
                                c.request.body.artisticStyle)
                  IN IF call.threw
                     THEN Respond(d, ArtFailure(call.error, now))
                     ELSE Await(d, [to |-> "AI", model |-> call.value.model,
                                    params |-> call.value.params],
                                "aiResponse")

GenerationResultUrlLen(artPrompt, imageUrl, weatherData, artisticStyle, now) ==
  [artPrompt |-> artPrompt,
   imageUrl |-> imageUrl,
   weatherData |-> weatherData,
   debug |-> [promptLength |-> Len(imageUrl), style |-> artisticStyle,
              timestamp |-> now]]

\* the body of the success response of handleArtGeneration
GenerationResult(artPrompt, imageUrl, weatherData, artisticStyle, now) ==
  [artPrompt |-> artPrompt,
   imageUrl |-> imageUrl,
   weatherData |-> weatherData,
   debug |-> [promptLength |-> Len(artPrompt), style |-> artisticStyle,
              timestamp |-> now]]

GenerateArtworkReplyPartial(c, reply, now) ==
  LET r == generateArtwork(reply)
      d == [c EXCEPT !.local.aiReply = reply]
  IN IF r.threw
     THEN Respond(d, JsonResponse(200,
            [artPrompt |-> c.local.artPrompt.s, error |-> r.error.message]))
     ELSE Respond(d, JsonResponse(200,
            GenerationResult(c.local.artPrompt.s, r.value,
                             c.request.body.weatherData,
                             c.request.body.artisticStyle, now)))

\* generateArtwork from the backend's reply, then the response of
\* handleArtGeneration
GenerateArtworkReply(c, reply, now) ==
  LET r == generateArtwork(reply)
      d == [c EXCEPT !.local.aiReply = reply]
  IN IF r.threw
     THEN Respond(d, ArtFailure(r.error, now))
     ELSE Respond(d, JsonResponse(200,
            GenerationResult(c.local.artPrompt.s, r.value,
                             c.request.body.weatherData,
                             c.request.body.artisticStyle, now)))

(***************************************************************************)
(* The page script (getIndexHTML): the document as the script sees it, the *)
(* two module-level variables, and the runs of generateArt under way.      *)
(***************************************************************************)
\* runs of generateArt that can be under way at once
MaxRuns == 2
\* runs of generateArt under way at once while the Worker serves the page
MaxServed == 1

\* String.prototype.trim
RECURSIVE TrimStart(_)
TrimStart(s) ==
  IF Len(s) > 0 /\ SubSeq(s, 1, 1) = " " THEN TrimStart(SubSeq(s, 2, Len(s)))
  ELSE s

RECURSIVE TrimEnd(_)
TrimEnd(s) ==
  IF Len(s) > 0 /\ SubSeq(s, Len(s), Len(s)) = " "
  THEN TrimEnd(SubSeq(s, 1, Len(s) - 1))
  ELSE s

Trim(s) == TrimEnd(TrimStart(s))

\* Response.ok
Ok(status) == status \in 200..299

\* a run of generateArt: where it stands and its constants location,
\* style and weatherResponse
NoRun ==
  [pc |-> "none", location |-> "", style |-> "", weatherResponse |-> None]

\* the document after loading: the four sections are hidden by the style
\* sheet, the first option of the select is chosen
InitialPage ==
  [location |-> "",
   style |-> "stable-diffusion",
   display |-> [loading |-> FALSE, error |-> FALSE, debug |-> FALSE,
                result |-> FALSE],
   errorText |-> "",
   weatherDataText |-> Null,
   artPromptText |-> "",
   generatedImageSrc |-> "",
   currentImageData |-> Null,
   currentWeatherData |-> Null,
   runs |-> [i \in 1..MaxRuns |-> NoRun],
   serving |-> 0]

hideAll(p) ==
  [p EXCEPT !.display = [loading |-> FALSE, error |-> FALSE, debug |-> FALSE,
                         result |-> FALSE]]

showLoading(p) == [p EXCEPT !.display.loading = TRUE]

hideLoading(p) == [p EXCEPT !.display.loading = FALSE]

showError(p, message) ==
  [p EXCEPT !.errorText = message, !.display.error = TRUE]

\* the text shown is JSON.stringify(data, null, 2), kept here as data
showDebugData(p, data) ==
  [p EXCEPT !.weatherDataText = data, !.display.debug = TRUE]

showResult(p, result) ==
  [p EXCEPT !.artPromptText = result.artPrompt,
            !.generatedImageSrc = result.imageUrl,
            !.display.result = TRUE]

\* the catch and the finally of generateArt; the run is over
Caught(p, i, message) ==
  [hideLoading(showError(p, message)) EXCEPT !.runs[i] = NoRun]

\* generateArt from its call to the fetch of /api/weather
generateArt(p, i) ==
  LET location == Trim(p.location) IN
  IF location = ""
  THEN showError(p, "Please enter a location")
  ELSE [showLoading(hideAll(p)) EXCEPT
          !.runs[i] = [pc |-> "weatherResponse", location |-> location,
                       style |-> p.style, weatherResponse |-> None]]

\* the request a run has on the wire; the bodies are JSON.stringify of
\* {location} and of {weatherData, artisticStyle: style}
RequestOf(run) ==
  IF run.pc = "weatherResponse"
  THEN [method |-> "POST", pathname |-> "/api/weather",
        body |-> [t |-> "object", location |-> Str(run.location)]]
  ELSE [method |-> "POST", pathname |-> "/api/generate-art",
        body |-> [t |-> "object", weatherData |-> run.weatherResponse.body,
                  artisticStyle |-> Str(run.style)]]

\* error.error || fallback
ErrorOr(body, fallback) ==
  IF "error" \in DOMAIN body /\ body.error # "" THEN body.error ELSE fallback

WeatherRespondedUnchecked(p, i, resp) ==
  [showDebugData([p EXCEPT !.currentWeatherData = resp.body], resp.body)
     EXCEPT !.runs[i].pc = "artResponse",
            !.runs[i].weatherResponse =
              IF Ok(resp.status) THEN resp
              ELSE [resp EXCEPT !.body = [t |-> "object", location |-> "",
                                          forecast |-> Undef]]]

\* generateArt from the response of /api/weather to the fetch of
\* /api/generate-art
WeatherResponded(p, i, resp) ==
  IF ~Ok(resp.status)
  THEN Caught(p, i, ErrorOr(resp.body, "Failed to fetch weather data"))
  ELSE [showDebugData([p EXCEPT !.currentWeatherData = resp.body], resp.body)
          EXCEPT !.runs[i].pc = "artResponse",
                 !.runs[i].weatherResponse = resp]

\* generateArt from the response of /api/generate-art to its end
ArtResponded(p, i, resp) ==
  IF ~Ok(resp.status)
  THEN Caught(p, i, ErrorOr(resp.body, "Failed to generate artwork"))
  ELSE [hideLoading(showResult([p EXCEPT !.currentImageData = resp.body],
                               resp.body))
          EXCEPT !.runs[i] = NoRun]

generateNew(p) == [hideAll(p) EXCEPT !.location = ""]

\* the continuation of run i when its fetch is answered by resp
Responded(p, i, resp) ==
  IF p.runs[i].pc = "weatherResponse" THEN WeatherResponded(p, i, resp)
  ELSE ArtResponded(p, i, resp)

Init ==
  /\ env \in Envs
  /\ request = NoRequest
  /\ pc = "idle"
  /\ calls = << >>
  /\ local = NoLocal
  /\ response = NoResponse
  /\ other = Idle(env)
  /\ page = InitialPage

\* the running invocation becomes c
Load(c) ==
  /\ request' = c.request
  /\ pc' = c.pc
  /\ calls' = c.calls
  /\ local' = c.local
  /\ response' = c.response

\* the running invocation becomes c; nothing else changes
Serve(c) == Load(c) /\ UNCHANGED <<env, other, page>>

\* a request arrives
fetch ==
  /\ pc \in {"idle", "done"}
  /\ \E r \in Requests : Serve(Route(env, r))

handleWeatherRequest ==
  /\ pc = "handleWeatherRequest"
  /\ Serve(HandleWeatherRequest(Running))

\* the geocoding reply arrives
fetchWeatherData_geo ==
  /\ pc = "geoResponse"
  /\ \E reply \in GeoReplies : Serve(FetchWeatherDataGeo(Running, reply))

\* the forecast reply arrives
fetchWeatherData_forecast ==
  /\ pc = "weatherResponse"
  /\ \E reply \in ForecastReplies :
       Serve(FetchWeatherDataForecast(Running, reply))

handleArtGeneration ==
  /\ pc = "handleArtGeneration"
  /\ \E now \in Clock : Serve(HandleArtGeneration(Running, now))

\* the reply of the language model arrives
generateArtPrompt_reply ==
  /\ pc = "geminiResponse"
  /\ \E reply \in GeminiReplies, now \in Clock :
       Serve(GenerateArtPromptReply(Running, reply, now))

\* the reply of the image backend arrives
generateArtwork_reply ==
  /\ pc = "aiResponse"
  /\ \E reply \in AIReplies, now \in Clock :
       Serve(GenerateArtworkReply(Running, reply, now))

Next ==
  \/ fetch
  \/ handleWeatherRequest
  \/ fetchWeatherData_geo
  \/ fetchWeatherData_forecast
  \/ handleArtGeneration
  \/ generateArtPrompt_reply
  \/ generateArtwork_reply

Spec == Init /\ [][Next]_vars

\* what the runtime guarantees at the least: a handler that is ready to run
\* runs, and an upstream call that gets no reply is in the end rejected.
\* No new request has to arrive.
Settle ==
  \/ handleWeatherRequest
  \/ handleArtGeneration
  \/ /\ pc = "geoResponse"
     /\ Serve(FetchWeatherDataGeo(Running, Throw(NetworkError)))
  \/ /\ pc = "weatherResponse"
     /\ Serve(FetchWeatherDataForecast(Running, Throw(NetworkError)))
  \/ /\ pc = "geminiResponse"
     /\ \E now \in Clock :
          Serve(GenerateArtPromptReply(Running, Throw(NetworkError), now))
  \/ /\ pc = "aiResponse"
     /\ \E now \in Clock :
          Serve(GenerateArtworkReply(Running,
                  Throw(Error("Error", "5007: No such model")), now))

FairSpec == Spec /\ WF_vars(Settle)

(***************************************************************************)
(* Two invocations of fetch in one isolate.  The event loop runs one       *)
(* invocation at a time and may pass from one to the other wherever the    *)
(* code awaits; the invocation that is not running is kept in other.  The  *)
(* Worker declares no variable outside its functions, so an invocation     *)
(* reads and writes nothing but its own parameters and locals.             *)
(***************************************************************************)
FewRequests ==
  {[method |-> "GET", pathname |-> "/", body |-> Undef],
   [method |-> "GET", pathname |-> "/favicon.ico", body |-> Undef]}
    \cup {[method |-> "POST", pathname |-> "/api/weather", body |-> b] :
            b \in {Unparsable,
                   [t |-> "object", location |-> Undef],
                   [t |-> "object", location |-> Str("Paris")]}}
    \cup {[method |-> "POST", pathname |-> "/api/generate-art", body |-> b] :
            b \in {[t |-> "object", weatherData |-> Undef,
                    artisticStyle |-> Str("flux")],
                   [t |-> "object", weatherData |-> SampleReport(2),
                    artisticStyle |-> Str("flux")],
                   [t |-> "object", weatherData |-> SampleReport(2),
                    artisticStyle |-> Undef]}}

\* the settlements of what the handler awaits at position p
Settlements(p) ==
  CASE p = "geoResponse" ->
         {Throw(NetworkError), Return(Array(<< >>)),
          Return(Array(<<Matches[1]>>)), Return(Array(<<Matches[2]>>))}
    [] p = "weatherResponse" ->
         {Throw(NetworkError),
          Return([t |-> "object", list |-> Array(ProviderList(1, 0, 0))]),
          Return([t |-> "object",
                  list |-> Array(ProviderList(SliceEnd + 1, 1, 0))])}
    [] p = "geminiResponse" ->
         {Throw(NetworkError),
          Return([ok |-> FALSE,
                  data |-> [error |-> [t |-> "object",
                                       message |-> Str("Quota exceeded")],
                            candidates |-> Undef]]),
          Return([ok |-> TRUE,
                  data |-> [error |-> Undef,
                            candidates |-> Array(<<Str("Mist")>>)]]),
          Return([ok |-> TRUE,
                  data |-> [error |-> Undef,
                            candidates |-> Array(
                              <<Str("Storm-grey spirals over amber light")>>)]])}
    [] p = "aiResponse" ->
         {Throw(Error("Error", "5007: No such model")), Return(Undef),
          Return(AIResponse("Uint8Array", <<77, 97, 110>>, Undef, Undef,
                            Undef)),
          Return(AIResponse("object", << >>, Str("TWFu"), Undef, Undef))}
    [] OTHER -> {None}

\* the continuation of invocation c when what it awaits is settled by reply
Step(c, reply, now) ==
  CASE c.pc = "handleWeatherRequest" -> HandleWeatherRequest(c)
    [] c.pc = "geoResponse" -> FetchWeatherDataGeo(c, reply)
    [] c.pc = "weatherResponse" -> FetchWeatherDataForecast(c, reply)
    [] c.pc = "handleArtGeneration" -> HandleArtGeneration(c, now)
    [] c.pc = "geminiResponse" -> GenerateArtPromptReply(c, reply, now)
    [] c.pc = "aiResponse" -> GenerateArtworkReply(c, reply, now)

\* a request arrives for the invocation that is running
Arrive ==
  /\ pc \in {"idle", "done"}
  /\ \E r \in FewRequests : Serve(Route(env, r))

ResumeSharedGeoData ==
  /\ pc \notin {"idle", "done"}
  /\ \E reply \in Settlements(pc), now \in Clock :
       IF pc = "weatherResponse" /\ other.pc = "weatherResponse"
       THEN Serve([Step([Running EXCEPT !.local.geoReply =
                                          other.local.geoReply],
                        reply, now)
                     EXCEPT !.local.geoReply = local.geoReply])
       ELSE Serve(Step(Running, reply, now))

\* the running invocation goes on from its await to the next one
Resume ==
  /\ pc \notin {"idle", "done"}
  /\ \E reply \in Settlements(pc), now \in Clock :
       Serve(Step(Running, reply, now))

\* at an await the event loop passes to the other invocation
Switch ==
  /\ other # Running
  /\ request' = other.request
  /\ pc' = other.pc
  /\ calls' = other.calls
  /\ local' = other.local
  /\ response' = other.response
  /\ other' = Running
  /\ UNCHANGED <<env, page>>

ConcurrentNext == Arrive \/ Resume \/ Switch

ConcurrentSpec == Init /\ [][ConcurrentNext]_vars

(***************************************************************************)
(* The page and the Worker together: the page's fetches are the requests   *)
(* the Worker serves, and the Worker's responses are what the page's       *)
(* fetches are answered with.                                              *)
(***************************************************************************)
\* what the user can have in the location field
LocationInputs == {"", " ", "Paris "}

\* the options of the select
StyleOptions == {"stable-diffusion", "flux", "dreamshaper", "realistic"}

\* fetch of the page rejects when the Worker cannot be reached
FailedToFetch == "Failed to fetch"

\* the user edits the location field
TypeLocation ==
  /\ \E v \in LocationInputs \ {page.location} :
       page' = [page EXCEPT !.location = v]
  /\ UNCHANGED <<env, request, pc, calls, local, response, other>>

\* the user chooses a style
SelectStyle ==
  /\ \E v \in StyleOptions \ {page.style} : page' = [page EXCEPT !.style = v]
  /\ UNCHANGED <<env, request, pc, calls, local, response, other>>

\* the button is clicked, or Enter is pressed in the location field
Click ==
  /\ Cardinality({j \in 1..MaxRuns : page.runs[j].pc # "none"}) < MaxServed
  /\ \E i \in 1..MaxRuns :
       /\ page.runs[i].pc = "none"
       /\ \A j \in 1..(i - 1) : page.runs[j].pc # "none"
       /\ page' = generateArt(page, i)
  /\ UNCHANGED <<env, request, pc, calls, local, response, other>>

\* the request of a run reaches the Worker
Send ==
  /\ pc \in {"idle", "done"}
  /\ page.serving = 0
  /\ \E i \in 1..MaxRuns :
       /\ page.runs[i].pc # "none"
       /\ Load(Route(env, RequestOf(page.runs[i])))
       /\ page' = [page EXCEPT !.serving = i]
  /\ UNCHANGED <<env, other>>

\* the settlements of what the handler awaits at position p, for the
\* requests of the page: each call fails or succeeds
PageSettlements(p) ==
  CASE p = "geoResponse" ->
         {Throw(NetworkError), Return(Array(<< >>)),
          Return(Array(<<Matches[1]>>))}
    [] p = "weatherResponse" ->
         {Throw(NetworkError),
          Return([t |-> "object", list |-> Array(ProviderList(1, 0, 0))])}
    [] p = "geminiResponse" ->
         {Return([ok |-> FALSE,
                  data |-> [error |-> [t |-> "object",
                                       message |-> Str("Quota exceeded")],
                            candidates |-> Undef]]),
          Return([ok |-> TRUE,
                  data |-> [error |-> Undef,
                            candidates |-> Array(<<Str("Mist")>>)]])}
    [] p = "aiResponse" ->
         {Throw(Error("Error", "5007: No such model")),
          Return(AIResponse("object", << >>, Str("TWFu"), Undef, Undef))}
    [] OTHER -> {None}

\* the clock of the Worker while it serves the page
PageClock == {"2025-01-01T00:00:00.000Z"}

\* the Worker goes on with the request of the page
Handle ==
  /\ pc \notin {"idle", "done"}
  /\ \E reply \in PageSettlements(pc), now \in PageClock :
       Serve(Step(Running, reply, now))

\* the Worker's response reaches the run that awaits it; the invocation is
\* over
Receive ==
  /\ pc = "done"
  /\ page.serving # 0
  /\ page' = [Responded(page, page.serving, response) EXCEPT !.serving = 0]
  /\ Load(Idle(env))
  /\ UNCHANGED <<env, other>>

\* the fetch of a run is rejected before its request reaches the Worker
Reject ==
  /\ \E i \in 1..MaxRuns :
       /\ page.runs[i].pc # "none"
       /\ page.serving # i
       /\ page' = Caught(page, i, FailedToFetch)
  /\ UNCHANGED <<env, request, pc, calls, local, response, other>>

PageNext ==
  TypeLocation \/ SelectStyle \/ Click \/ Send \/ Handle \/ Receive \/ Reject

PageSpec == Init /\ [][PageNext]_vars

(***************************************************************************)
(* The page script by itself: any number of runs of generateArt up to      *)
(* MaxRuns are under way at once, and the fetch of each is answered, in    *)
(* any order, by a response the Worker can give.  The style stays the one  *)
(* selected when the page loads: the script only copies it into the        *)
(* request.  saveImage and shareResult only read currentImageData and      *)
(* write nothing of the page; they are left out.                           *)
(***************************************************************************)
\* the prompts of the results the page is answered with
ScriptPrompts == {"Mist", "Storm-grey spirals over amber light"}

\* what the fetch of a run can be answered with
Answers(run) ==
  IF run.pc = "weatherResponse"
  THEN {WeatherFailure(Error("Error", "Location not found")),
        JsonResponse(200, SampleReport(2))}
  ELSE {ArtFailure(Error("Error",
                         "Image generation failed: 5007: No such model"), now) :
          now \in PageClock}
         \cup {JsonResponse(200,
                  GenerationResult(prompt, DataUrlPrefix \o "TWFu",
                                   run.weatherResponse.body, Str(run.style),
                                   now)) :
                 prompt \in ScriptPrompts, now \in PageClock}

\* the button is clicked, or Enter is pressed in the location field, while
\* fewer than MaxRuns runs are under way
Generate ==
  /\ \E i \in 1..MaxRuns :
       /\ page.runs[i].pc = "none"
       /\ \A j \in 1..(i - 1) : page.runs[j].pc # "none"
       /\ page' = generateArt(page, i)
  /\ UNCHANGED <<env, request, pc, calls, local, response, other>>

\* the fetch of a run is answered
Answer ==
  /\ \E i \in 1..MaxRuns :
       /\ page.runs[i].pc # "none"
       /\ \E resp \in Answers(page.runs[i]) :
            page' = Responded(page, i, resp)
  /\ UNCHANGED <<env, request, pc, calls, local, response, other>>

\* the button Generate New of the result section is clicked
GenerateNew ==
  /\ page.display.result
  /\ page' = generateNew(page)
  /\ UNCHANGED <<env, request, pc, calls, local, response, other>>

ScriptNext == TypeLocation \/ Generate \/ Answer \/ Reject \/ GenerateNew

ScriptSpec == Init /\ [][ScriptNext]_vars

(***************************************************************************)
(* Properties.                                                             *)
(***************************************************************************)
IsWeatherPost ==
  request.pathname = "/api/weather" /\ request.method = "POST"

IsArtPost ==
  request.pathname = "/api/generate-art" /\ request.method = "POST"

CallsTo(target) == {i \in 1..Len(calls) : calls[i].to = target}

Min(a, b) == IF a < b THEN a ELSE b

\* C1: when the geocoding reply is an empty list, the request ends with the
\* error 'Location not found' and no forecast call is ever issued for it.
C1_NotFoundNoForecastCall ==
  local.geoReply = Return(Array(<< >>)) =>
    /\ pc = "done"
    /\ response.status = 500
    /\ response.body = [error |-> "Location not found"]
    /\ CallsTo("forecast") = {}
    /\ Len(calls) = 1

C1_Witness ==
  /\ local.geoReply = Return(Array(<< >>))
  /\ calls[1].to = "geocoding"
  /\ response.body.error = "Location not found"

\* C2: a forecast reply of N well-formed entries is answered with status
\* 200 and a forecast of exactly min(N, 8) points, point i being made from
\* entry i of the provider's list.
C2_FirstEightInOrder ==
  (pc = "done" /\ IsWeatherPost /\ local.forecastReply # None
     /\ ~local.forecastReply.threw
     /\ local.forecastReply.value.t = "object"
     /\ local.forecastReply.value.list.t = "Array") =>
    LET list == local.forecastReply.value.list.b
        m == Min(Len(list), 8)
    IN IF \A i \in 1..m : Len(list[i].weather) > 0
       THEN /\ response.status = 200
            /\ Len(response.body.forecast.b) = m
            /\ \A i \in 1..m :
                 /\ response.body.forecast.b[i].datetime = list[i].dt_txt
                 /\ response.body.forecast.b[i].humidity = list[i].main.humidity
                 /\ response.body.forecast.b[i].description
                      = list[i].weather[1].description
                 /\ response.body.forecast.b[i].clouds = list[i].clouds.all
       ELSE response.status = 500

C2_Witness ==
  /\ pc = "done" /\ IsWeatherPost /\ response.status = 200
  /\ Len(local.forecastReply.value.list.b) = 16
  /\ Len(response.body.forecast.b) = 8
  /\ response.body.forecast.b[8].datetime = "T+21h"

\* C3: for each of the four style keywords the call to the image backend
\* names the model of the table and carries that model's parameter set,
\* whatever the prompt is; with a text prompt and one of the four styles the
\* call is always issued.
C3_StyleTable ==
  (IsArtPost /\ local.artPrompt.t = "string"
     /\ request.body.artisticStyle \in
          {Str("stable-diffusion"), Str("flux"), Str("dreamshaper"),
           Str("realistic")}) =>
    /\ Len(calls) = 2
    /\ calls[2].to = "AI"
    /\ LET st == request.body.artisticStyle.s
           text == local.artPrompt.s
       IN /\ st = "stable-diffusion" =>
               /\ calls[2].model = "@cf/stabilityai/stable-diffusion-xl-base-1.0"
               /\ calls[2].params = [prompt |-> text, num_steps |-> 20,
                                     guidance |-> 75, strength |-> 1]
          /\ st = "flux" =>
               /\ calls[2].model = "@cf/black-forest-labs/flux-1-schnell"
               /\ calls[2].params = [prompt |-> text, num_steps |-> 4]
          /\ st = "dreamshaper" =>
               /\ calls[2].model = "@cf/lykon/dreamshaper-8-lcm"
               /\ calls[2].params = [prompt |-> text, num_steps |-> 8,
                                     guidance |-> 75]
          /\ st = "realistic" =>
               /\ calls[2].model = "@cf/bytedance/stable-diffusion-xl-lightning"
               /\ calls[2].params = [prompt |-> text, num_steps |-> 8]

C3_Witness ==
  /\ IsArtPost /\ pc = "aiResponse"
  /\ request.body.artisticStyle = Str("realistic")
  /\ calls[2].model = "@cf/bytedance/stable-diffusion-xl-lightning"
  /\ calls[2].params.num_steps = 8

\* the default model and its parameter set
DefaultModel == "@cf/stabilityai/stable-diffusion-xl-base-1.0"

\* C4: a style that is not one of the four table keys is rendered with the
\* default model and the default parameter set, and the request does not
\* fail because of the style.
C4_UnknownStyleDefault ==
  (IsArtPost /\ local.artPrompt.t = "string"
     /\ PropertyKey(request.body.artisticStyle) \notin
          {"stable-diffusion", "flux", "dreamshaper", "realistic"}) =>
    /\ Len(calls) = 2
    /\ calls[2].to = "AI"
    /\ calls[2].model = DefaultModel
    /\ calls[2].params = [prompt |-> local.artPrompt.s, num_steps |-> 20,
                          guidance |-> 75, strength |-> 1]

\* base64 of the byte sequences of the model, from RFC 4648
KnownBase64 ==
  (<< >> :> "") @@ (<<77>> :> "TQ==") @@ (<<255>> :> "/w==") @@
  (<<77, 97>> :> "TWE=") @@ (<<255, 0>> :> "/wA=") @@
  (<<77, 97, 110>> :> "TWFu") @@ (<<255, 0, 77>> :> "/wBN") @@
  (<<77, 97, 110, 255>> :> "TWFu/w==") @@ (<<255, 0, 77, 97>> :> "/wBNYQ==") @@
  (<<77, 97, 110, 255, 0>> :> "TWFu/wA=") @@
  (<<255, 0, 77, 97, 110>> :> "/wBNYW4=") @@
  (<<77, 97, 110, 255, 0, 77>> :> "TWFu/wBN") @@
  (<<255, 0, 77, 97, 110, 255>> :> "/wBNYW7/")

IsBinary(v) == v.t \in {"Uint8Array", "ArrayBuffer"}

\* the backend resolved and the request is answered
ArtReplied ==
  /\ pc = "done" /\ IsArtPost
  /\ local.aiReply # None /\ ~local.aiReply.threw

\* the request is answered with status 200 and this image
Rendered(url) == response.status = 200 /\ response.body.imageUrl = url

\* C5: a raw binary response, {image: <binary>}, {result: {image: <string>}}
\* (a non-empty string) and {data: <binary>} are each answered with
\* 'data:image/png;base64,' followed by the base64 of the bytes, or by the
\* string; every image the Renderer returns starts with that prefix.
C5_DataUrl ==
  ArtReplied =>
    LET r == local.aiReply.value IN
    /\ (IsBinary(r) /\ r.image = Undef /\ r.result = Undef /\ r.data = Undef)
         => Rendered("data:image/png;base64," \o KnownBase64[r.b])
    /\ (r.t = "object" /\ IsBinary(r.image) /\ r.result = Undef
          /\ r.data = Undef)
         => Rendered("data:image/png;base64," \o KnownBase64[r.image.b])
    /\ (r.t = "object" /\ r.image = Undef /\ r.result.t = "object"
          /\ r.result.image.t = "string" /\ r.result.image.s # ""
          /\ r.data = Undef)
         => Rendered("data:image/png;base64," \o r.result.image.s)
    /\ (r.t = "object" /\ r.image = Undef /\ r.result = Undef
          /\ IsBinary(r.data))
         => Rendered("data:image/png;base64," \o KnownBase64[r.data.b])
    /\ response.status = 200
         => /\ Len(response.body.imageUrl) >= 22
            /\ SubSeq(response.body.imageUrl, 1, 22) = "data:image/png;base64,"

C5_Witness ==
  /\ ArtReplied
  /\ local.aiReply.value.t = "object"
  /\ local.aiReply.value.data = ArrayBuffer(<<77, 97, 110, 255>>)
  /\ local.aiReply.value.image = Undef
  /\ response.body.imageUrl = "data:image/png;base64,TWFu/w=="

\* the text a payload stands for: a string as it is, bytes in base64, the
\* elements of a plain array as bytes
PayloadText(v) ==
  IF v.t = "string" THEN v.s
  ELSE IF v.t = "Array" THEN KnownBase64[[i \in 1..Len(v.b) |-> v.b[i] % 256]]
  ELSE KnownBase64[v.b]

HasResultImage(r) == r.result.t = "object" /\ Truthy(r.result.image)

\* C6 as stated: the shape used is chosen in the order direct binary, image,
\* result.image, data.
C6_DirectFirst ==
  (ArtReplied /\ Truthy(local.aiReply.value)) =>
    LET r == local.aiReply.value IN
    IF IsBinary(r) THEN Rendered(DataUrlPrefix \o KnownBase64[r.b])
    ELSE IF Truthy(r.image) THEN Rendered(DataUrlPrefix \o PayloadText(r.image))
    ELSE IF HasResultImage(r)
    THEN Rendered(DataUrlPrefix \o PayloadText(r.result.image))
    ELSE IF Truthy(r.data)
    THEN IsBinary(r.data) => Rendered(DataUrlPrefix \o PayloadText(r.data))
    ELSE response.status = 500

\* C6 amended: the shape used is chosen in the order image, direct binary,
\* result.image, data, a field counting as present when its value is truthy;
\* the first match determines the result and no match is a failure.
C6_ImageFirst ==
  (ArtReplied /\ Truthy(local.aiReply.value)) =>
    LET r == local.aiReply.value IN
    IF Truthy(r.image) THEN Rendered(DataUrlPrefix \o PayloadText(r.image))
    ELSE IF IsBinary(r) THEN Rendered(DataUrlPrefix \o KnownBase64[r.b])
    ELSE IF HasResultImage(r)
    THEN Rendered(DataUrlPrefix \o PayloadText(r.result.image))
    ELSE IF Truthy(r.data)
    THEN IsBinary(r.data) => Rendered(DataUrlPrefix \o PayloadText(r.data))
    ELSE response.status = 500

C6_Witness ==
  /\ ArtReplied
  /\ local.aiReply.value.t = "object"
  /\ local.aiReply.value.image = Undef
  /\ local.aiReply.value.result = ResultOf(Str("TWFu"))
  /\ local.aiReply.value.data = Uint8Array(<<77, 97>>)
  /\ response.body.imageUrl = "data:image/png;base64,TWFu"

\* the payload of the shape the Renderer uses
UsedPayload(r) ==
  IF Truthy(r.image) THEN r.image
  ELSE IF IsBinary(r) THEN Uint8Array(r.b)
  ELSE IF HasResultImage(r) THEN r.result.image
  ELSE r.data

\* C7: whichever shape is used, a binary payload comes out in base64 and a
\* string payload (base64 text, so a whole number of groups of four
\* characters) comes out unchanged after 'data:image/png;base64,'.
C7_BinaryEncodedStringUnchanged ==
  (ArtReplied /\ response.status = 200) =>
    LET used == UsedPayload(local.aiReply.value) IN
    /\ IsBinary(used)
         => response.body.imageUrl = DataUrlPrefix \o KnownBase64[used.b]
    /\ (used.t = "string" /\ Len(used.s) % 4 = 0)
         => response.body.imageUrl = DataUrlPrefix \o used.s

\* the language model answered with a non-success status and a body
\* {error: {message: <string>}}
GeminiErrorMessage ==
  /\ IsArtPost /\ pc = "done"
  /\ local.geminiReply # None /\ ~local.geminiReply.threw
  /\ ~local.geminiReply.value.ok
  /\ local.geminiReply.value.data.error.t = "object"
  /\ local.geminiReply.value.data.error.message.t = "string"

\* C8 as stated: the message of the 500 response equals the provider's
\* (non-empty) message exactly.
C8_MessageVerbatim ==
  (GeminiErrorMessage /\ local.geminiReply.value.data.error.message.s # "") =>
    /\ response.status = 500
    /\ response.body.error = local.geminiReply.value.data.error.message.s

\* C8 amended: the message of the 500 response is 'Gemini API error: '
\* followed by the provider's message, or by 'Unknown error' when that
\* message is empty.
C8_MessagePrefixed ==
  GeminiErrorMessage =>
    LET x == local.geminiReply.value.data.error.message.s IN
    /\ response.status = 500
    /\ x # "" => response.body.error = "Gemini API error: " \o x
    /\ x = "" => response.body.error = "Gemini API error: Unknown error"
    /\ CallsTo("AI") = {}

C8_Witness ==
  /\ GeminiErrorMessage
  /\ local.geminiReply.value.data.error.message = Str("Quota exceeded")
  /\ response.body.error = "Gemini API error: Quota exceeded"

\* C9: POST /api/weather with a body that has no location, or an empty one,
\* is answered with 400 and the JSON body {error: 'Location is required'},
\* and no outbound call is made for it.
C9_MissingLocation400 ==
  (IsWeatherPost /\ pc # "handleWeatherRequest"
     /\ request.body.t = "object"
     /\ request.body.location \in {Undef, Str("")}) =>
    /\ pc = "done"
    /\ response = [status |-> 400, contentType |-> "application/json",
                   body |-> [error |-> "Location is required"]]
    /\ calls = << >>

C9_Witness ==
  /\ IsWeatherPost /\ pc = "done"
  /\ request.body.t = "object" /\ request.body.location = Str("")
  /\ response.status = 400

\* a field of the request body is missing or empty
ValidationError ==
  /\ request.body.t = "object"
  /\ \/ IsWeatherPost /\ ~Truthy(request.body.location)
     \/ IsArtPost /\ ~Truthy(request.body.weatherData)
     \/ IsArtPost /\ ~Truthy(request.body.weatherData.forecast)

\* C10 as stated: on both POST endpoints a validation error is answered
\* with 400, every other failure with 500, the body holding the message.
C10_Validation400 ==
  (pc = "done" /\ (IsWeatherPost \/ IsArtPost)) =>
    /\ ValidationError => response.status = 400
    /\ ~ValidationError => response.status \in {200, 500}
    /\ response.status # 200 => "error" \in DOMAIN response.body

\* every awaited reply of the request settled without throwing
NoReplyThrew ==
  \A f \in {"geoReply", "forecastReply", "geminiReply", "aiReply"} :
    local[f] = None \/ ~local[f].threw

\* C10 amended: only POST /api/weather with a missing or empty location is
\* answered with 400; every other failure on either endpoint, an unparsable
\* body and invalid weather data on /api/generate-art included, is answered
\* with 500; both carry a JSON body whose error field is the message.
C10_Only400IsMissingLocation ==
  (pc = "done" /\ (IsWeatherPost \/ IsArtPost)) =>
    /\ response.contentType = "application/json"
    /\ response.status \in {200, 400, 500}
    /\ response.status = 400 <=>
         (IsWeatherPost /\ request.body.t = "object"
            /\ ~Truthy(request.body.location))
    /\ response.status # 200 =>
         /\ "error" \in DOMAIN response.body
         /\ response.body.error # ""
    /\ response.status = 200 =>
         /\ "error" \notin DOMAIN response.body
         /\ NoReplyThrew
         /\ Len(calls) = 2
    /\ request.body = Unparsable =>
         /\ response.status = 500
         /\ response.body.error = JsonError.message
    /\ (IsArtPost /\ request.body.t = "object"
          /\ request.body.weatherData.t = "object"
          /\ ~Truthy(request.body.weatherData.forecast)) =>
         /\ response.status = 500
         /\ response.body.error = "Invalid weather data provided"
    /\ (local.geoReply # None /\ local.geoReply.threw) =>
         /\ response.status = 500
         /\ response.body.error = local.geoReply.error.message

C10_Witness ==
  /\ pc = "done" /\ IsArtPost
  /\ request.body.t = "object"
  /\ request.body.weatherData.t = "object"
  /\ request.body.weatherData.forecast = Undef
  /\ response.status = 500
  /\ response.body.error = "Invalid weather data provided"

\* the failures of one art request, read off its body and the replies it got
BodyUnparsable == request.body \in {Unparsable, Null}

WeatherDataInvalid ==
  /\ ~BodyUnparsable
  /\ \/ request.body.weatherData \in {Undef, Null}
     \/ request.body.weatherData.forecast \in {Undef, Null}

SynthesizerFailed ==
  /\ local.geminiReply # None
  /\ \/ local.geminiReply.threw
     \/ ~local.geminiReply.value.ok
     \/ local.geminiReply.value.data.candidates.t # "Array"
     \/ local.geminiReply.value.data.candidates.b = << >>
     \/ local.geminiReply.value.data.candidates.b[1].t # "string"

RendererFailed ==
  /\ local.geminiReply # None /\ ~SynthesizerFailed
  /\ \/ Len(calls) < 2
     \/ /\ local.aiReply # None
        /\ \/ local.aiReply.threw
           \/ response.status # 200
           \/ "imageUrl" \notin DOMAIN response.body

GenerationResultFields == {"artPrompt", "imageUrl", "weatherData", "debug"}

\* C11: an answered POST /api/generate-art is either the failure answer,
\* status 500 with a JSON body of exactly error, stack and timestamp, given
\* on an unparsable body, invalid weather data, a Synthesizer failure or a
\* Renderer failure, or the success answer, status 200 with a complete
\* GenerationResult (prompt, data URL, weather report, debug envelope); a
\* failure never carries a field of the result.
C11_FailureOrCompleteResult ==
  (pc = "done" /\ IsArtPost) =>
    /\ response.contentType = "application/json"
    /\ response.status \in {200, 500}
    /\ (BodyUnparsable \/ WeatherDataInvalid \/ SynthesizerFailed
          \/ RendererFailed) => response.status = 500
    /\ response.status = 500 =>
         /\ DOMAIN response.body = {"error", "stack", "timestamp"}
         /\ response.body.timestamp \in Clock
         /\ Includes(response.body.stack, response.body.error)
         /\ DOMAIN response.body \cap GenerationResultFields = {}
    /\ response.status = 200 =>
         /\ DOMAIN response.body = GenerationResultFields
         /\ response.body.artPrompt = local.artPrompt.s
         /\ Len(response.body.imageUrl) >= Len(DataUrlPrefix)
         /\ response.body.weatherData.t = "object"
         /\ DOMAIN response.body.debug = {"promptLength", "style", "timestamp"}

\* a Renderer failure answered with 500 and the three fields
C11_Witness ==
  /\ pc = "done" /\ IsArtPost
  /\ local.aiReply # None /\ local.aiReply.threw
  /\ response.status = 500
  /\ DOMAIN response.body = {"error", "stack", "timestamp"}

\* the invocation that results from serving request r under the bindings e
\* with the upstream replies recorded in l, the clock reading now at each
\* response; a reply the handler never awaits is left unused
ServedWith(e, r, l, now) ==
  LET c0 == Route(e, r)
      c1 == IF c0.pc = "handleWeatherRequest" THEN HandleWeatherRequest(c0)
            ELSE IF c0.pc = "handleArtGeneration"
            THEN HandleArtGeneration(c0, now)
            ELSE c0
      c2 == IF c1.pc = "geoResponse" /\ l.geoReply # None
            THEN FetchWeatherDataGeo(c1, l.geoReply)
            ELSE IF c1.pc = "geminiResponse" /\ l.geminiReply # None
            THEN GenerateArtPromptReply(c1, l.geminiReply, now)
            ELSE c1
      c3 == IF c2.pc = "weatherResponse" /\ l.forecastReply # None
            THEN FetchWeatherDataForecast(c2, l.forecastReply)
            ELSE IF c2.pc = "aiResponse" /\ l.aiReply # None
            THEN GenerateArtworkReply(c2, l.aiReply, now)
            ELSE c2
  IN c3

\* the replies an invocation got, without what it computed from them
RepliesOf(l) == [l EXCEPT !.artPrompt = None]

\* every string of the response body
ResponseStrings ==
  IF response.contentType # "application/json" THEN {response.body.s}
  ELSE IF "error" \in DOMAIN response.body
  THEN {response.body.error}
         \cup (IF "stack" \in DOMAIN response.body
               THEN {response.body.stack, response.body.timestamp} ELSE {})
  ELSE IF "forecast" \in DOMAIN response.body
  THEN {response.body.location}
         \cup UNION {{response.body.forecast.b[i].datetime,
                      response.body.forecast.b[i].description,
                      response.body.forecast.b[i].main,
                      response.body.forecast.b[i].icon} :
                     i \in 1..Len(response.body.forecast.b)}
  ELSE {response.body.artPrompt, response.body.imageUrl,
        response.body.debug.timestamp}
         \cup (IF response.body.debug.style.t = "string"
               THEN {response.body.debug.style.s} ELSE {})

Credentials == {env.OPENWEATHER_API_KEY, env.GEMINI_API_KEY}

\* C12: no string of a response (success body, error message, stack)
\* contains the weather or the language-model credential, and the response
\* is the one the same request gets, with the same upstream replies, under
\* any other credential values.
C12_NoCredentialInResponse ==
  pc = "done" =>
    /\ \A s \in ResponseStrings : \A k \in Credentials : ~Includes(s, k)
    /\ \A e \in Envs : \E now \in Clock :
         ServedWith(e, request, RepliesOf(local), now).response = response

\* an answered request that sent the weather credential upstream, and one
\* that sent the language-model credential
C12_Witness ==
  /\ pc = "done" /\ Len(calls) >= 1
  /\ \/ /\ calls[1].to = "geocoding"
        /\ calls[1].appid = env.OPENWEATHER_API_KEY
        /\ response.status = 500
     \/ /\ calls[1].to = "gemini"
        /\ calls[1].key = env.GEMINI_API_KEY
        /\ response.status = 500
        /\ Len(response.body.stack) > 0

Downstream == {"geocoding", "forecast", "gemini", "AI"}

\* the reply to the latest call was a failure
LastCallFailed ==
  \/ local.geoReply # None /\ local.geoReply.threw /\ local.forecastReply = None
  \/ local.forecastReply # None /\ local.forecastReply.threw
  \/ local.geminiReply # None /\ local.geminiReply.threw /\ local.aiReply = None
  \/ local.aiReply # None /\ local.aiReply.threw

\* C14: within one request each of the four downstream calls is issued at
\* most once, a failed reply is followed by the response and by no further
\* call, and a request to /api/weather answered 200 issued exactly two
\* calls, the geocoding call and then the forecast call.
C14_NoRetry ==
  /\ \A target \in Downstream : Cardinality(CallsTo(target)) <= 1
  /\ LastCallFailed =>
       /\ pc = "done"
       /\ Len(calls) = Cardinality({r \in {local.geoReply, local.forecastReply,
                                           local.geminiReply, local.aiReply} :
                                      r # None})
  /\ (pc = "done" /\ IsWeatherPost /\ response.status = 200) =>
       /\ Len(calls) = 2
       /\ calls[1].to = "geocoding"
       /\ calls[2].to = "forecast"

\* a Resolver invocation that succeeded, with its two calls
C14_Witness ==
  /\ pc = "done" /\ IsWeatherPost /\ response.status = 200
  /\ Len(response.body.forecast.b) = SliceEnd
  /\ <<calls[1].to, calls[2].to>> = <<"geocoding", "forecast">>

\* a value that holds nothing: undefined, null, the empty string, or a
\* binary or list of length zero
EmptyValue(v) ==
  \/ v \in {Undef, Null, Str("")}
  \/ v.t \in {"Uint8Array", "ArrayBuffer", "Array"} /\ Len(v.b) = 0

\* the backend response is none, or an object none of whose image,
\* result.image and data fields holds anything
NoImageIn(r) ==
  \/ r \in {Undef, Null}
  \/ /\ r.t = "object"
     /\ EmptyValue(r.image)
     /\ (r.result = Undef \/ EmptyValue(r.result.image))
     /\ EmptyValue(r.data)

GenerationError(m) ==
  /\ response.status = 500
  /\ Len(response.body.error) >= Len(m)
  /\ SubSeq(response.body.error, 1, Len(m)) = m

\* C16: when the backend response is empty or its image,
\* result.image and data fields are absent or empty (a zero-length binary
\* included), the Renderer fails with 'Image generation failed: ...' and
\* returns no data URL.
C16_EmptyFails ==
  (ArtReplied /\ NoImageIn(local.aiReply.value)) =>
    GenerationError("Image generation failed: ")

\* C17: a POST /api/generate-art whose body has no weatherData, or a
\* weatherData without a forecast, is answered with the error 'Invalid
\* weather data provided' and no call to the text model or the image model
\* is made for it.
C17_InvalidWeatherData ==
  (/\ IsArtPost /\ pc # "handleArtGeneration"
   /\ request.body.t = "object"
   /\ \/ request.body.weatherData = Undef
      \/ /\ request.body.weatherData.t = "object"
         /\ request.body.weatherData.forecast = Undef) =>
    /\ pc = "done"
    /\ response.status = 500
    /\ response.body.error = "Invalid weather data provided"
    /\ calls = << >>

\* the text-model call returned a success status and a first candidate text
SynthesizerReturned ==
  /\ IsArtPost
  /\ local.geminiReply # None /\ ~local.geminiReply.threw
  /\ local.geminiReply.value.ok
  /\ local.geminiReply.value.data.candidates.t = "Array"
  /\ Len(local.geminiReply.value.data.candidates.b) >= 1
  /\ local.geminiReply.value.data.candidates.b[1].t = "string"

FirstCandidateText == local.geminiReply.value.data.candidates.b[1].s

\* C18: when the text-model call returns a success status, the Synthesizer
\* returns the first candidate's text as it is; the prompt of the image-model
\* call and the artPrompt field of the result are that same text.
C18_PromptVerbatim ==
  SynthesizerReturned =>
    /\ local.artPrompt = Str(FirstCandidateText)
    /\ \A i \in CallsTo("AI") : calls[i].params.prompt = FirstCandidateText
    /\ CallsTo("AI") = {} => (pc = "done" /\ response.status = 500)
    /\ (pc = "done" /\ response.status = 200) =>
         response.body.artPrompt = FirstCandidateText

\* a result whose prompt is the first of two different candidates
C18_Witness ==
  /\ SynthesizerReturned
  /\ Len(local.geminiReply.value.data.candidates.b) = 2
  /\ local.geminiReply.value.data.candidates.b[2].s # FirstCandidateText
  /\ Len(FirstCandidateText) > 10
  /\ pc = "done" /\ response.status = 200
  /\ response.body.artPrompt = FirstCandidateText
  /\ calls[2].params.prompt = FirstCandidateText

\* the model the table gives for a style, the default for any other
ModelFor(style) ==
  IF style.t = "string" /\ style.s \in DOMAIN models THEN models[style.s]
  ELSE DefaultModel

\* C19: a POST /api/generate-art answered 200 returns the weatherData of the
\* request unchanged, a debug.promptLength that is the length of artPrompt,
\* and as debug.style the style of the request, which is the style the
\* Renderer was given and chose its model by.
C19_ResultFrame ==
  (pc = "done" /\ IsArtPost /\ response.status = 200) =>
    /\ response.body.weatherData = request.body.weatherData
    /\ response.body.debug.promptLength = Len(response.body.artPrompt)
    /\ response.body.debug.style = request.body.artisticStyle
    /\ calls[2].to = "AI"
    /\ calls[2].model = ModelFor(response.body.debug.style)

\* a result for the style dreamshaper and a report of two forecast points
C19_Witness ==
  /\ pc = "done" /\ IsArtPost /\ response.status = 200
  /\ response.body.debug.style = Str("dreamshaper")
  /\ calls[2].model = "@cf/lykon/dreamshaper-8-lcm"
  /\ Len(response.body.weatherData.forecast.b) = 2
  /\ response.body.debug.promptLength = 4
  /\ Len(response.body.imageUrl) > Len(DataUrlPrefix)

\* a request to one of the two POST API paths is being handled
Handling == pc \notin {"idle", "done"}

Answered ==
  /\ pc = "done"
  /\ response.status \in {200, 400, 500}
  /\ response.contentType = "application/json"

\* C20: every request to POST /api/weather or POST /api/generate-art, once
\* its upstream calls are settled, ends answered, with one response, whose
\* status is 200, 400 or 500 and whose content type is JSON: while the
\* handler runs there is no response yet, the response appears in the step
\* that ends the handler, and no failure leaves the handler unanswered.
C20_AlwaysAnswered ==
  /\ [](Handling => (IsWeatherPost \/ IsArtPost) /\ response = NoResponse)
  /\ []((pc = "done" /\ (IsWeatherPost \/ IsArtPost)) => Answered)
  /\ [][Handling => (pc' = "done" <=> response' # NoResponse)]_vars
  /\ Handling ~> Answered

\* a request answered 500 after an upstream call was rejected
C20_Witness ==
  /\ Answered /\ IsWeatherPost
  /\ response.status = 500
  /\ local.forecastReply = Throw(NetworkError)

\* invocation c is what its request gives when it is served alone, with the
\* replies c got
ServedAlone(c) ==
  CASE c.pc = "idle" -> c = Idle(c.env)
    [] c.pc \in {"handleWeatherRequest", "handleArtGeneration"} ->
         c = Route(c.env, c.request)
    [] OTHER ->
         \E now \in Clock :
           ServedWith(c.env, c.request, RepliesOf(c.local), now) = c

\* C15: however the awaits of two requests interleave, each invocation (its
\* calls, its locals and its response) is the one that serving its request
\* alone gives for the same upstream replies.
C15_Isolation == ServedAlone(Running) /\ ServedAlone(other)

\* two requests under way at once: one was answered 200 for the match it
\* got while the other, which got a different match, awaits its forecast
C15_Witness ==
  /\ pc = "done" /\ IsWeatherPost /\ response.status = 200
  /\ other.pc = "weatherResponse"
  /\ other.local.geoReply # local.geoReply
  /\ response.body.location = "Paris, US"

\* the run of the page whose request the Worker is serving
ServedRun == page.runs[page.serving]

TextModelSucceeded ==
  /\ local.geminiReply # None
  /\ ~local.geminiReply.threw
  /\ local.geminiReply.value.ok

\* the Renderer is started only after the Synthesizer succeeded: the call of
\* the image model is the second call, after the text-model call, whose
\* reply had a success status
RendererAfterSynthesizer ==
  \A i \in CallsTo("AI") :
    /\ i = 2 /\ calls[1].to = "gemini"
    /\ TextModelSucceeded

\* the Synthesizer is started only after the Resolver succeeded: the Worker
\* serves /api/generate-art for a run whose /api/weather was answered 200,
\* with the report of that answer
SynthesizerAfterResolver ==
  (IsArtPost /\ pc # "idle") =>
    /\ page.serving # 0
    /\ ServedRun.pc = "artResponse"
    /\ ServedRun.weatherResponse # None
    /\ ServedRun.weatherResponse.status = 200
    /\ request.body.weatherData = ServedRun.weatherResponse.body
    /\ CallsTo("geocoding") = {} /\ CallsTo("forecast") = {}

\* a failed stage is the last one of its request
NothingAfterFailure ==
  /\ (local.geoReply # None /\ local.geoReply.threw) =>
       (pc = "done" /\ ~Ok(response.status) /\ Len(calls) = 1)
  /\ (local.forecastReply # None /\ local.forecastReply.threw) =>
       (pc = "done" /\ ~Ok(response.status) /\ Len(calls) = 2)
  /\ (local.geminiReply # None /\ ~TextModelSucceeded) =>
       (pc = "done" /\ ~Ok(response.status) /\ CallsTo("AI") = {})

\* a run passes from the Resolver stage to the next only in the step in
\* which /api/weather answers it ok; in any other step that ends its
\* Resolver stage (an error answer, a rejected fetch) the run is over
RunAdvances ==
  \A i \in 1..MaxRuns :
    (page.runs[i].pc = "weatherResponse"
       /\ page'.runs[i].pc # "weatherResponse") =>
      IF pc = "done" /\ page.serving = i /\ Ok(response.status)
      THEN /\ IsWeatherPost
           /\ page'.runs[i].pc = "artResponse"
           /\ page'.runs[i].weatherResponse = response
      ELSE page'.runs[i] = NoRun

\* C13: the stages run in the order Resolver, Synthesizer, Renderer, each
\* started only after the one before it succeeded: the page requests
\* /api/generate-art only after /api/weather answered ok, the Worker calls
\* the image model only after the text-model call returned a success
\* status, and after a failed stage no later stage is started for that
\* request.
C13_StagesInOrder ==
  /\ [](RendererAfterSynthesizer /\ SynthesizerAfterResolver
          /\ NothingAfterFailure)
  /\ [][RunAdvances]_vars

\* the third stage under way for a run of the page: the image model has
\* been called, after the report and the prompt were obtained
C13_Witness ==
  /\ pc = "aiResponse" /\ IsArtPost
  /\ page.serving # 0
  /\ ServedRun.weatherResponse.status = 200
  /\ request.body.weatherData.location = "Paris, FR"
  /\ TextModelSucceeded
  /\ calls[2].to = "AI"
  /\ page.display.loading /\ page.display.debug

\* the request is one the Worker has a page or a handler for
IsPageGet == request.pathname = "/" /\ request.method = "GET"

\* C21: GET / is answered with the HTML page, the two handlers run only for
\* POST on their paths, and a request with any other method and path is
\* answered 404 'Not Found'; neither the page nor the 404 makes an outbound
\* call.
C21_Routing ==
  request # NoRequest =>
    /\ IsPageGet =>
         /\ pc = "done" /\ calls = << >>
         /\ response.status = 200
         /\ response.contentType = "text/html"
    /\ (pc \notin {"idle", "done"} \/ calls # << >>) =>
         (IsWeatherPost \/ IsArtPost)
    /\ ~(IsPageGet \/ IsWeatherPost \/ IsArtPost) =>
         /\ pc = "done" /\ calls = << >>
         /\ response.status = 404
         /\ response.body = Str("Not Found")

\* the runs of generateArt that are under way
InFlight == {i \in 1..MaxRuns : page.runs[i].pc # "none"}

\* C22: the loading indicator is visible exactly while a run of generateArt
\* is in flight: visible whenever one is, also when a second run was started
\* while the first awaits its response, and hidden once none is.
C22_LoadingWhileInFlight ==
  page.display.loading <=> (InFlight # {})

\* C23: the error section and the result section are never both visible,
\* and whenever the result section is visible currentImageData is not null
\* and is the result whose prompt and image are displayed.
C23_ErrorOrResult ==
  /\ ~(page.display.error /\ page.display.result)
  /\ page.display.result =>
       /\ page.currentImageData # Null
       /\ page.artPromptText = page.currentImageData.artPrompt
       /\ page.generatedImageSrc = page.currentImageData.imageUrl

==============================================================================
